---------------------------- MODULE Spec2Model ----------------------------
(***************************************************************************)
(* A model of factorizer/factorization/operations.py: the axis-pattern     *)
(* dimension inference, the Reshape layout transform and its inverse, the  *)
(* Matricize / Tensorize equations, the shifted-window compositions        *)
(* SWMatricize / SWTensorize, and the contractions cp / khatri_rao.        *)
(*                                                                         *)
(* Conventions.  A pattern (one side of an equation, as re.findall and     *)
(* str.split cut it) is a sequence of groups, a group a sequence of axis   *)
(* names.  Optional[int] is a sequence of length 0 (None) or 1.  A dict    *)
(* is a function whose DOMAIN is its key set.  A tensor is a record with   *)
(* its shape and its elements in row-major (memory) order.  Tensor         *)
(* elements are values of a small binary floating-point format.            *)
(***************************************************************************)
EXTENDS Integers, Sequences, FiniteSets, TLC

VARIABLES pc, args, tr, x, out, inv_in, back, fin, fout

vars == <<pc, args, tr, x, out, inv_in, back, fin, fout>>

(***************************************************************************)
(* Bounds of the model.                                                    *)
(***************************************************************************)
\* precision (significand bits) of the modelled floating-point format
MantBits == 3
\* the largest finite float is (2^MantBits - 1) * 2^MaxExpShift
MaxExpShift == 2
\* cyclic shift offsets range over 1..MaxShift and their negations
MaxShift == 1
\* SWMatricize / SWTensorize are built with at most MaxVariants explicit shifts
MaxVariants == 3
\* cp / khatri_rao take 1..MaxFactors factor matrices
MaxFactors == 2

(***************************************************************************)
(* Python values.                                                          *)
(***************************************************************************)
None == <<>>
Some(n) == <<n>>
IsNone(o) == Len(o) = 0
Max(a, b) == IF a >= b THEN a ELSE b
Min(a, b) == IF a <= b THEN a ELSE b
Range(s) == {s[i] : i \in DOMAIN s}
EmptyDict == [d \in {} |-> 0]

RECURSIVE SeqProd(_)
SeqProd(s) == IF s = <<>> THEN 1 ELSE Head(s) * SeqProd(Tail(s))

RECURSIVE SeqSum(_)
SeqSum(s) == IF s = <<>> THEN 0 ELSE Head(s) + SeqSum(Tail(s))

RECURSIVE Flatten(_)
Flatten(gs) == IF gs = <<>> THEN <<>> ELSE Head(gs) \o Flatten(Tail(gs))

\* [dl[d] for d in dims if d in dl]
KnownLengths(dims, dl) ==
    LET known == SelectSeq(dims, LAMBDA d : d \in DOMAIN dl)
    IN  [j \in 1..Len(known) |-> dl[known[j]]]

(***************************************************************************)
(* Floating point: the non-negative values of a binary format with         *)
(* MantBits significand bits, gradual underflow and round-to-nearest-even, *)
(* counted in units of the smallest subnormal.  Inf is the overflow value. *)
(***************************************************************************)
RECURSIVE Pow2(_)
Pow2(n) == IF n = 0 THEN 1 ELSE 2 * Pow2(n - 1)

RECURSIVE BitLen(_)
BitLen(n) == IF n = 0 THEN 0 ELSE 1 + BitLen(n \div 2)

FMax == (Pow2(MantBits) - 1) * Pow2(MaxExpShift)
Inf == FMax + 1

\* num/den rounded to the nearest float, ties to the even significand
FRound(num, den) ==
    LET L == BitLen(num \div den)
        e == IF L > MantBits THEN L - MantBits ELSE 0
        u == den * Pow2(e)
        m == num \div u
        r == num % u
        m1 == IF 2 * r > u \/ (2 * r = u /\ m % 2 = 1) THEN m + 1 ELSE m
        v == m1 * Pow2(e)
    IN  IF v > FMax THEN Inf ELSE v

FAdd(a, b) == IF a = Inf \/ b = Inf THEN Inf ELSE FRound(a + b, 1)
FDiv(a, n) == IF a = Inf THEN Inf ELSE FRound(a, n)

(***************************************************************************)
(* Tensors.                                                                *)
(***************************************************************************)
\* a sequence given by a rule, with its elements computed once
Tuple(s) == s \o <<>>

Tensor(shape, data) == [st |-> "ok", shape |-> Tuple(shape), data |-> Tuple(data)]
Raised(kind) == [st |-> kind, shape |-> <<>>, data |-> <<>>]
NoTensor == Raised("none")
Numel(t) == SeqProd(t.shape)

\* row-major stride of axis j of a shape
Stride(shape, j) == SeqProd(SubSeq(shape, j + 1, Len(shape)))

\* torch.roll(t, shifts, dims): element i of axis d moves to (i + s) mod n
Roll(t, shifts, dims) ==
    LET n == Len(t.shape)
        sh == Tuple([a \in 1..n |->
                 SeqSum([j \in 1..Len(dims) |-> IF dims[j] + 1 = a THEN shifts[j] ELSE 0])])
        stride == Tuple([a \in 1..n |-> Stride(t.shape, a)])
        src(k) == SeqSum([a \in 1..n |->
                    LET c == (k \div stride[a]) % t.shape[a]
                    IN  ((c - sh[a]) % t.shape[a]) * stride[a]])
    IN  IF Len(shifts) # Len(dims) \/ \E j \in 1..Len(dims) : dims[j] + 1 > n
        THEN Raised("RuntimeError")
        ELSE Tensor(t.shape, [k \in 1..Numel(t) |-> t.data[src(k - 1) + 1]])

\* torch.cat(ts): concatenation along axis 0
Cat(ts) ==
    IF \E j \in 1..Len(ts) : ts[j].st # "ok"
    THEN ts[CHOOSE j \in 1..Len(ts) : ts[j].st # "ok" /\ \A i \in 1..(j - 1) : ts[i].st = "ok"]
    ELSE IF \E j \in 1..Len(ts) : Tail(ts[j].shape) # Tail(ts[1].shape)
    THEN Raised("RuntimeError")
    ELSE Tensor(<<SeqSum([j \in 1..Len(ts) |-> ts[j].shape[1]])>> \o Tail(ts[1].shape),
                Flatten([j \in 1..Len(ts) |-> ts[j].data]))

\* t[None, lo:hi, ...][0]: rows lo..hi-1 of axis 0, the bounds clamped as a slice does
Slice0(t, lo, hi) ==
    LET b == t.shape[1]
        l == Min(lo, b)
        h == Max(Min(hi, b), l)
        row == Stride(t.shape, 1)
    IN  Tensor(<<h - l>> \o Tail(t.shape), SubSeq(t.data, l * row + 1, h * row))

(***************************************************************************)
(* einops.layers.torch.Rearrange, as Reshape uses it.                      *)
(***************************************************************************)
\* Rearrange(equation, **axes_lengths): the recipe, or EinopsError
Rearrange(left, right, axes_lengths) ==
    LET l == Flatten(left)
        r == Flatten(right)
        bad == \/ Cardinality(Range(l)) # Len(l)
               \/ Cardinality(Range(r)) # Len(r)
               \/ Range(l) # Range(r)
               \/ ~(DOMAIN axes_lengths \subseteq Range(l))
               \/ \E i \in 1..Len(left) :
                     Len(left[i]) - Len(KnownLengths(left[i], axes_lengths)) > 1
    IN  [st |-> IF bad THEN "EinopsError" ELSE "ok",
         left |-> left, right |-> right, axes_lengths |-> axes_lengths]

Identity == [st |-> "identity", left |-> <<>>, right |-> <<>>, axes_lengths |-> EmptyDict]

\* the layer applied to a tensor
Rearrange_apply(r, t) ==
    LET al == r.axes_lengths
        kp(i) == SeqProd(KnownLengths(r.left[i], al))
        full(i) == Len(KnownLengths(r.left[i], al)) = Len(r.left[i])
        okdim(i) == IF full(i) THEN t.shape[i] = kp(i)
                    ELSE kp(i) > 0 /\ t.shape[i] % kp(i) = 0
        inAxes == Flatten(r.left)
        outAxes == Flatten(r.right)
        el == [d \in Range(inAxes) |->
                 IF d \in DOMAIN al THEN al[d]
                 ELSE LET i == CHOOSE g \in 1..Len(r.left) : d \in Range(r.left[g])
                      IN  t.shape[i] \div kp(i)]
        inLen == Tuple([j \in 1..Len(inAxes) |-> el[inAxes[j]]])
        outLen == Tuple([j \in 1..Len(outAxes) |-> el[outAxes[j]]])
        inStride == Tuple([j \in 1..Len(inAxes) |-> Stride(inLen, j)])
        \* the stride, in the output, of the j-th axis of the input
        outStride == Tuple([j \in 1..Len(inAxes) |->
                       Stride(outLen, CHOOSE i \in 1..Len(outAxes) : outAxes[i] = inAxes[j])])
        src(k) == SeqSum([j \in 1..Len(inAxes) |->
                    ((k \div outStride[j]) % inLen[j]) * inStride[j]])
        outShape == [i \in 1..Len(r.right) |->
                       SeqProd([j \in 1..Len(r.right[i]) |-> el[r.right[i][j]]])]
    IN  IF r.st = "identity" THEN t
        ELSE IF Len(t.shape) # Len(r.left) \/ \E i \in 1..Len(r.left) : ~okdim(i)
        THEN Raised("EinopsError")
        ELSE Tensor(outShape, [k \in 1..Numel(t) |-> t.data[src(k - 1) + 1]])

(***************************************************************************)
(* Reshape.                                                                *)
(***************************************************************************)
\* the quotient rounded to the nearest integer instead of down
floor_div_rounded(s, known_product) == (2 * s + known_product) \div (2 * known_product)

\* s // known_product
floor_div(s, known_product) == s \div known_product

\* the loop of infer_dims from group i on, inferred_dims so far
RECURSIVE infer_dims_from(_, _, _, _, _)
infer_dims_from(groups, size, dim_lengths, i, inferred_dims) ==
    IF i > Min(Len(groups), Len(size)) THEN inferred_dims
    ELSE
      LET dims == groups[i]
          s == size[i]
          known == KnownLengths(dims, dim_lengths)
          keys == DOMAIN inferred_dims
      IN  IF IsNone(s) \/ Len(known) < Len(dims) - 1
          THEN infer_dims_from(groups, size, dim_lengths, i + 1,
                 [d \in keys \cup (Range(dims) \cap DOMAIN dim_lengths) |->
                    IF d \in Range(dims) THEN dim_lengths[d] ELSE inferred_dims[d]])
          ELSE
            LET known_product == SeqProd(known)
                unknown_dim == floor_div(s[1], known_product)
            IN  infer_dims_from(groups, size, dim_lengths, i + 1,
                  [d \in keys \cup Range(dims) |->
                     IF d \in Range(dims)
                     THEN IF d \in DOMAIN dim_lengths THEN dim_lengths[d] ELSE unknown_dim
                     ELSE inferred_dims[d]])

infer_dims(pattern, size, dim_lengths) ==
    infer_dims_from(pattern, size, dim_lengths, 1, EmptyDict)

\* the size of a group taken from its first axis alone
compute_size_first_axis(pattern, dim_lengths) ==
    [i \in 1..Len(pattern) |->
       IF \E d \in Range(pattern[i]) : d \notin DOMAIN dim_lengths THEN None
       ELSE Some(dim_lengths[pattern[i][1]])]

compute_size(pattern, dim_lengths) ==
    [i \in 1..Len(pattern) |->
       IF \E d \in Range(pattern[i]) : d \notin DOMAIN dim_lengths THEN None
       ELSE Some(SeqProd([j \in 1..Len(pattern[i]) |-> dim_lengths[pattern[i][j]]]))]

\* Reshape.__init__; shifts and dims are (k, v) values, kwargs the axis-size hints
Reshape(cls, input_size, has_equation, left, right, shifts, dims, kwargs) ==
    LET rearrange == IF has_equation THEN Rearrange(left, right, kwargs) ELSE Identity
        dim_lengths == IF has_equation THEN infer_dims(left, input_size, kwargs)
                       ELSE EmptyDict
        output_size == IF has_equation THEN compute_size(right, dim_lengths)
                       ELSE input_size
        rearrange_inv == IF has_equation THEN Rearrange(right, left, dim_lengths)
                         ELSE Identity
        has_shifts == shifts.k # "None"
    IN  [cls |-> cls,
         st |-> IF "EinopsError" \in {rearrange.st, rearrange_inv.st}
                THEN "EinopsError" ELSE "ok",
         input_size |-> input_size,
         left |-> left, right |-> right,
         rearrange |-> rearrange,
         dim_lengths |-> dim_lengths,
         output_size |-> output_size,
         rearrange_inv |-> rearrange_inv,
         has_shifts |-> has_shifts,
         shifts |-> IF has_shifts THEN shifts.v ELSE <<>>,
         shifts_inv |-> IF has_shifts THEN [j \in 1..Len(shifts.v) |-> -shifts.v[j]] ELSE <<>>,
         has_dims |-> dims.k # "None",
         dims |-> IF dims.k # "None" THEN dims.v ELSE <<>>]

\* a module whose constructor raised
Failed(cls, kind) == [cls |-> cls, st |-> kind]

\* torch.roll as Reshape calls it: over the whole flattened tensor when dims is None
Reshape_roll(m, t, shifts) ==
    IF m.has_dims THEN Roll(t, shifts, m.dims)
    ELSE IF Len(shifts) # 1 THEN Raised("RuntimeError")
    ELSE Tensor(t.shape, Roll(Tensor(<<Numel(t)>>, t.data), shifts, <<0>>).data)

Reshape_forward(m, t) ==
    LET x1 == IF m.has_shifts THEN Reshape_roll(m, t, m.shifts) ELSE t
    IN  IF x1.st # "ok" THEN x1 ELSE Rearrange_apply(m.rearrange, x1)

\* the inverse rolling by shifts again instead of by shifts_inv
Reshape_inverse_forward_same_shift(m, t) ==
    LET o == Rearrange_apply(m.rearrange_inv, t)
    IN  IF o.st # "ok" \/ ~m.has_shifts THEN o ELSE Reshape_roll(m, o, m.shifts)

Reshape_inverse_forward(m, t) ==
    LET o == Rearrange_apply(m.rearrange_inv, t)
    IN  IF o.st # "ok" \/ ~m.has_shifts THEN o ELSE Reshape_roll(m, o, m.shifts_inv)

(***************************************************************************)
(* Matricize and Tensorize.  A grid_size / patch_size / shifts argument is *)
(* a (k, v) value: None, an int or a tuple of Optional[int].               *)
(***************************************************************************)
PNone == [k |-> "None", v |-> None]
PInt(n) == [k |-> "int", v |-> Some(n)]
PTuple(s) == [k |-> "tuple", v |-> s]

\* torch.nn.modules.utils._ntuple(n)(p): a tuple as it is, anything else n times
to_ntuple(n, p) == IF p.k = "tuple" THEN p.v ELSE [i \in 1..n |-> p.v]

AxisG == <<"g0", "g1", "g2">>
AxisP == <<"p0", "p1", "p2">>

\* the kwargs dict built from the four hints
dims_lengths(spatial_dim, num_heads, head_dim, grid_size, patch_size) ==
    LET gt == to_ntuple(spatial_dim, grid_size)
        pt == to_ntuple(spatial_dim, patch_size)
        gj == {j \in 1..Len(gt) : ~IsNone(gt[j])}
        pj == {j \in 1..Len(pt) : ~IsNone(pt[j])}
        hk == IF IsNone(num_heads) THEN {} ELSE {"h"}
        dk == IF IsNone(head_dim) THEN {} ELSE {"d"}
    IN  [a \in hk \cup dk \cup {AxisG[j] : j \in gj} \cup {AxisP[j] : j \in pj} |->
           IF a = "h" THEN Max(num_heads[1], 1)
           ELSE IF a = "d" THEN Max(head_dim[1], 1)
           ELSE IF \E j \in gj : AxisG[j] = a
           THEN Max(gt[CHOOSE j \in gj : AxisG[j] = a][1], 1)
           ELSE Max(pt[CHOOSE j \in pj : AxisP[j] = a][1], 1)]

\* 'b (h d) (g0 p0) (g1 p1) ...'
left_equation(spatial_dim) ==
    <<<<"b">>, <<"h", "d">>>> \o [i \in 1..spatial_dim |-> <<AxisG[i], AxisP[i]>>]

\* the shifts and dims handed to Reshape
shift_arg(spatial_dim, shifts) ==
    IF shifts.k = "None" THEN PNone
    ELSE LET t == to_ntuple(spatial_dim, shifts)
         IN  PTuple([j \in 1..Len(t) |-> t[j][1]])

dims_arg(spatial_dim, shifts) ==
    IF shifts.k = "None" THEN PNone ELSE PTuple([j \in 1..spatial_dim |-> j + 1])

\* a stricter validation: exactly one member of each pair
hint_assertions_exactly_one(num_heads, head_dim, grid_size, patch_size) ==
    /\ IsNone(num_heads) # IsNone(head_dim)
    /\ (grid_size.k = "None") # (patch_size.k = "None")

\* the two assert statements: TRUE when both pass
hint_assertions(num_heads, head_dim, grid_size, patch_size) ==
    /\ ~(IsNone(num_heads) /\ IsNone(head_dim))
    /\ ~(grid_size.k = "None" /\ patch_size.k = "None")

Matricize(input_size, num_heads, head_dim, grid_size, patch_size, shifts) ==
    LET spatial_dim == Len(input_size) - 2
        left == left_equation(spatial_dim)
        right == <<<<"b", "h">>>>
                 \o <<[i \in 1..spatial_dim |-> AxisG[i]]>>
                 \o <<<<"d">>, [i \in 1..spatial_dim |-> AxisP[i]]>>
    IN  IF ~hint_assertions(num_heads, head_dim, grid_size, patch_size)
        THEN Failed("Matricize", "AssertionError")
        ELSE LET m == Reshape("Matricize", input_size, TRUE, left, right,
                              shift_arg(spatial_dim, shifts), dims_arg(spatial_dim, shifts),
                              dims_lengths(spatial_dim, num_heads, head_dim,
                                           grid_size, patch_size))
             IN  IF m.st = "ok" THEN m ELSE Failed("Matricize", m.st)

Tensorize(input_size, num_heads, head_dim, grid_size, patch_size, shifts) ==
    LET spatial_dim == Len(input_size) - 2
        left == left_equation(spatial_dim)
        \* line 317: right = "(b h) "
        right317 == <<<<"b", "h">>>>
        \* line 318: right = '(g0 g1 ...) ', an assignment: right317 is dropped
        right318 == <<[i \in 1..spatial_dim |-> AxisG[i]]>>
        \* line 319: right += 'd p0 p1 ...'
        right == right318 \o <<<<"d">>>> \o [i \in 1..spatial_dim |-> <<AxisP[i]>>]
    IN  IF ~hint_assertions(num_heads, head_dim, grid_size, patch_size)
        THEN Failed("Tensorize", "AssertionError")
        ELSE LET m == Reshape("Tensorize", input_size, TRUE, left, right,
                              shift_arg(spatial_dim, shifts), dims_arg(spatial_dim, shifts),
                              dims_lengths(spatial_dim, num_heads, head_dim,
                                           grid_size, patch_size))
             IN  IF m.st = "ok" THEN m ELSE Failed("Tensorize", m.st)

(***************************************************************************)
(* SWMatricize and SWTensorize.  shifts is None (the default) or a list    *)
(* of per-variant shifts.                                                  *)
(***************************************************************************)
PList(s) == [k |-> "list", v |-> s]

\* [None, tuple(s // 2 for s in patch_size)]; None // 2 raises TypeError
default_shifts(patch_size) ==
    IF \E j \in 1..Len(patch_size) : IsNone(patch_size[j]) THEN Failed("list", "TypeError")
    ELSE [st |-> "ok",
          v |-> <<PNone, PTuple([j \in 1..Len(patch_size) |-> Some(patch_size[j][1] \div 2)])>>]

SWMatricize(input_size, num_heads, head_dim, grid_size, patch_size, shifts) ==
    LET spatial_dim == Len(input_size) - 2
        patch_tuple == to_ntuple(spatial_dim, patch_size)
        grid_tuple == to_ntuple(spatial_dim, grid_size)
        sh == IF shifts.k = "None" THEN default_shifts(patch_tuple)
              ELSE [st |-> "ok", v |-> shifts.v]
    IN  IF sh.st # "ok" THEN Failed("SWMatricize", sh.st)
        ELSE LET shifted_windows ==
                     Tuple([j \in 1..Len(sh.v) |->
                        Matricize(input_size, num_heads, head_dim,
                                  PTuple(grid_tuple), PTuple(patch_tuple), sh.v[j])])
                 bad == {j \in 1..Len(sh.v) : shifted_windows[j].st # "ok"}
             IN  IF bad # {}
                 THEN Failed("SWMatricize",
                             shifted_windows[CHOOSE j \in bad : \A i \in bad : j <= i].st)
                 ELSE IF Len(sh.v) = 0 THEN Failed("SWMatricize", "IndexError")
                 ELSE [cls |-> "SWMatricize", st |-> "ok",
                       shifted_windows |-> shifted_windows,
                       output_size |-> shifted_windows[1].output_size]

SWTensorize(input_size, num_heads, head_dim, grid_size, patch_size, shifts) ==
    LET spatial_dim == Len(input_size) - 2
        patch_tuple == to_ntuple(spatial_dim, patch_size)
        grid_tuple == to_ntuple(spatial_dim, grid_size)
        sh == IF shifts.k = "None" THEN default_shifts(patch_tuple)
              ELSE [st |-> "ok", v |-> shifts.v]
    IN  IF sh.st # "ok" THEN Failed("SWTensorize", sh.st)
        ELSE LET shifted_windows ==
                     Tuple([j \in 1..Len(sh.v) |->
                        Tensorize(input_size, num_heads, head_dim,
                                  PTuple(grid_tuple), PTuple(patch_tuple), sh.v[j])])
                 bad == {j \in 1..Len(sh.v) : shifted_windows[j].st # "ok"}
             IN  IF bad # {}
                 THEN Failed("SWTensorize",
                             shifted_windows[CHOOSE j \in bad : \A i \in bad : j <= i].st)
                 ELSE IF Len(sh.v) = 0 THEN Failed("SWTensorize", "IndexError")
                 ELSE [cls |-> "SWTensorize", st |-> "ok",
                       shifted_windows |-> shifted_windows,
                       output_size |-> shifted_windows[1].output_size]

\* the variants' outputs concatenated last variant first
SW_forward_reversed(m, t) ==
    LET n == Len(m.shifted_windows)
    IN  Cat(Tuple([j \in 1..n |-> Reshape_forward(m.shifted_windows[n + 1 - j], t)]))

\* forward of either composition: every variant on the same input, concatenated
SW_forward(m, t) ==
    Cat(Tuple([j \in 1..Len(m.shifted_windows) |-> Reshape_forward(m.shifted_windows[j], t)]))

RECURSIVE FSum(_, _)
FSum(acc, s) == IF s = <<>> THEN acc ELSE FSum(FAdd(acc, Head(s)), Tail(s))

\* the slices taken from the end of the batch: variant j gets the chunk of variant V-1-j
SW_chunk_reversed(m, t, j) ==
    LET b == t.shape[1]
        num_shifts == Len(m.shifted_windows)
        i == num_shifts - 1 - j
    IN  Slice0(t, i * (b \div num_shifts), (i + 1) * (b \div num_shifts))

\* the j-th slice z of inverse_forward, j counted from 0
SW_chunk(m, t, j) ==
    LET b == t.shape[1]
        num_shifts == Len(m.shifted_windows)
    IN  Slice0(t, j * (b \div num_shifts), (j + 1) * (b \div num_shifts))

\* inverse_forward of either composition: out = 0.0; out = out + inverse_j(z_j); out / num_shifts
SW_inverse_forward(m, t) ==
    LET num_shifts == Len(m.shifted_windows)
        inv == Tuple([j \in 1..num_shifts |->
                  Reshape_inverse_forward(m.shifted_windows[j], SW_chunk(m, t, j - 1))])
        bad == {j \in 1..num_shifts : inv[j].st # "ok"}
    IN  IF bad # {} THEN inv[CHOOSE j \in bad : \A i \in bad : j <= i]
        ELSE IF \E j \in 1..num_shifts : inv[j].shape # inv[1].shape
        THEN Raised("RuntimeError")
        ELSE Tensor(inv[1].shape,
                    [k \in 1..Numel(inv[1]) |->
                       FDiv(FSum(0, [j \in 1..num_shifts |-> inv[j].data[k]]), num_shifts)])

\* module(x) and module.inverse_forward(x), dispatched on the class
forward(m, t) ==
    IF m.cls \in {"SWMatricize", "SWTensorize"} THEN SW_forward(m, t)
    ELSE Reshape_forward(m, t)

inverse_forward(m, t) ==
    IF m.cls \in {"SWMatricize", "SWTensorize"} THEN SW_inverse_forward(m, t)
    ELSE Reshape_inverse_forward(m, t)

(***************************************************************************)
(* cp and khatri_rao.  A factor matrix is a tensor of shape                *)
(* (batch, extent, rank); entries are small integers, whose products and   *)
(* sums every floating-point format represents exactly, so the order in    *)
(* which opt_einsum contracts does not show.                               *)
(***************************************************************************)
\* u[b, i, r], indices from 0
At3(u, b, i, r) == u.data[(b * u.shape[2] + i) * u.shape[3] + r + 1]

\* the legs i0 .. i(M-1) of the row-major position k of a tensor of these extents
Unravel(extents, k) == [m \in 1..Len(extents) |-> (k \div Stride(extents, m)) % extents[m]]

cp(factor_matrices) ==
    LET M == Len(factor_matrices)
        batch == factor_matrices[1].shape[1]
        rank == factor_matrices[1].shape[3]
        extents == [m \in 1..M |-> factor_matrices[m].shape[2]]
        n == SeqProd(extents)
        elem(b, k) == LET i == Unravel(extents, k)
                      IN  SeqSum([r \in 1..rank |->
                            SeqProd([m \in 1..M |-> At3(factor_matrices[m], b, i[m], r - 1)])])
    IN  Tensor(<<batch>> \o extents,
               [q \in 1..(batch * n) |-> elem((q - 1) \div n, (q - 1) % n)])

\* the contraction with the rank leg placed right after the batch leg
khatri_rao_contract_rank_first(factor_matrices) ==
    LET M == Len(factor_matrices)
        batch == factor_matrices[1].shape[1]
        rank == factor_matrices[1].shape[3]
        extents == [m \in 1..M |-> factor_matrices[m].shape[2]]
        n == SeqProd(extents)
        elem(b, k, r) == LET i == Unravel(extents, k)
                         IN  SeqProd([m \in 1..M |-> At3(factor_matrices[m], b, i[m], r)])
    IN  Tensor(<<batch, rank>> \o extents,
               [q \in 1..(batch * n * rank) |->
                  elem((q - 1) \div (n * rank), (q - 1) % n, ((q - 1) \div n) % rank)])

\* the contraction to legs (b, i0, .., i(M-1), r), before torch.flatten
khatri_rao_contract(factor_matrices) ==
    LET M == Len(factor_matrices)
        batch == factor_matrices[1].shape[1]
        rank == factor_matrices[1].shape[3]
        extents == [m \in 1..M |-> factor_matrices[m].shape[2]]
        n == SeqProd(extents)
        elem(b, k, r) == LET i == Unravel(extents, k)
                         IN  SeqProd([m \in 1..M |-> At3(factor_matrices[m], b, i[m], r)])
    IN  Tensor(<<batch>> \o extents \o <<rank>>,
               [q \in 1..(batch * n * rank) |->
                  elem((q - 1) \div (n * rank), ((q - 1) \div rank) % n, (q - 1) % rank)])

\* torch.flatten(t, start_dim=1, end_dim=-2): the same memory, the middle axes merged
flatten_middle(t) ==
    Tensor(<<t.shape[1], SeqProd(SubSeq(t.shape, 2, Len(t.shape) - 1)), t.shape[Len(t.shape)]>>,
           t.data)

khatri_rao(factor_matrices) == flatten_middle(khatri_rao_contract(factor_matrices))

(***************************************************************************)
(* Inputs.                                                                 *)
(***************************************************************************)
\* finite floats of the format (for every MantBits >= 3), in increasing order
FloatVals == <<0, 1, 2, 3, 4, 5, 6, 7, 8, 10, 12, 14, 16, 20, 24, 28>>

\* n elements, pairwise different for n <= 16, starting at FloatVals[seed + 1]
XData(n, seed) == [k \in 1..n |-> FloatVals[((k - 1 + seed) % Len(FloatVals)) + 1]]

XShapes == {<<1, 2, 2>>, <<2, 2, 2>>, <<1, 2, 4>>, <<1, 2, 2, 2>>}
XSeeds == {0, 5}
XTensors == {Tensor(sh, XData(SeqProd(sh), seed)) : sh \in XShapes, seed \in XSeeds}

\* what a caller may hand to inverse_forward after forward returned t:
\* t itself, t with one more row, t twice
InvInputs(t) == {t, Cat(<<t, Slice0(t, 0, 1)>>), Cat(<<t, t>>)}

ShiftRange == 1..MaxShift

InputSizes == {<<Some(1), Some(2), Some(2)>>, <<None, Some(2), Some(4)>>,
               <<Some(2), Some(2), Some(2)>>, <<Some(1), Some(4), Some(2)>>,
               <<Some(1), Some(2), Some(2), Some(2)>>,
               <<Some(1), Some(4), Some(8), Some(8)>>}
OptHints == {None, Some(1), Some(2)}
SizeHints == {PNone, PInt(1), PInt(2), PInt(4)}
ShiftArgs == {PNone} \cup {PInt(n) : n \in ShiftRange}

\* the equations of the plain Reshape transforms; NoEquation is equation=None
Equation(left, right) == [given |-> TRUE, left |-> left, right |-> right]
NoEquation == [given |-> FALSE, left |-> <<>>, right |-> <<>>]
Equations ==
    {Equation(<<<<"a">>, <<"b">>, <<"c">>>>, <<<<"c">>, <<"a">>, <<"b">>>>),
     Equation(<<<<"a">>, <<"b">>, <<"c0", "c1">>>>, <<<<"c1", "a">>, <<"b", "c0">>>>),
     Equation(<<<<"a">>, <<"b0", "b1">>, <<"c">>>>, <<<<"b1">>, <<"c", "b0", "a">>>>),
     Equation(<<<<"a">>, <<"b">>, <<"c">>>>, <<<<"a">>, <<"b">>>>)}
Kwargs == {EmptyDict, "c0" :> 2, "c1" :> 2, "b0" :> 2, "b1" :> 1, ("c0" :> 2) @@ ("c1" :> 2)}
ReshapeSizes == {<<Some(1), Some(2), Some(4)>>, <<None, Some(2), Some(2)>>,
                 <<Some(2), Some(2), Some(2)>>, <<Some(1), Some(4), None>>}
ReshapeShifts ==
    {[shifts |-> PNone, dims |-> PNone]}
    \cup {[shifts |-> PTuple(<<s>>), dims |-> PTuple(<<2>>)] : s \in ShiftRange}
    \cup {[shifts |-> PTuple(<<s, 0 - s>>), dims |-> PTuple(<<0, 1>>)] : s \in ShiftRange}
    \cup {[shifts |-> PTuple(<<0 - s>>), dims |-> PNone] : s \in ShiftRange}

(***************************************************************************)
(* The transforms as a state machine: a module is constructed, called on   *)
(* a tensor, and its inverse_forward is called.                            *)
(***************************************************************************)
NoArgs == [cls |-> "none"]
NoModule == Failed("none", "none")

Init ==
    /\ pc = "new"
    /\ args = NoArgs
    /\ tr = NoModule
    /\ x = NoTensor
    /\ out = NoTensor
    /\ inv_in = NoTensor
    /\ back = NoTensor
    /\ fin = NoArgs
    /\ fout = EmptyDict

NewReshape ==
    /\ pc = "new"
    /\ \E input_size \in ReshapeSizes, eq \in Equations \cup {NoEquation},
          kwargs \in Kwargs, sd \in ReshapeShifts :
          /\ eq = NoEquation => kwargs = EmptyDict
          /\ args' = [cls |-> "Reshape", input_size |-> input_size, equation |-> eq,
                      kwargs |-> kwargs, shifts |-> sd.shifts, dims |-> sd.dims]
          /\ tr' = Reshape("Reshape", input_size, eq.given, eq.left, eq.right,
                           sd.shifts, sd.dims, kwargs)
    /\ pc' = "built"
    /\ UNCHANGED <<x, out, inv_in, back, fin, fout>>

HintArgs(cls, input_size, num_heads, head_dim, grid_size, patch_size, shifts) ==
    [cls |-> cls, input_size |-> input_size, num_heads |-> num_heads, head_dim |-> head_dim,
     grid_size |-> grid_size, patch_size |-> patch_size, shifts |-> shifts]

NewMatricize ==
    /\ pc = "new"
    /\ \E input_size \in InputSizes, num_heads \in OptHints, head_dim \in OptHints,
          grid_size \in SizeHints, patch_size \in SizeHints, shifts \in ShiftArgs :
          /\ args' = HintArgs("Matricize", input_size, num_heads, head_dim,
                              grid_size, patch_size, shifts)
          /\ tr' = Matricize(input_size, num_heads, head_dim, grid_size, patch_size, shifts)
    /\ pc' = "built"
    /\ UNCHANGED <<x, out, inv_in, back, fin, fout>>

NewTensorize ==
    /\ pc = "new"
    /\ \E input_size \in InputSizes, num_heads \in OptHints, head_dim \in OptHints,
          grid_size \in SizeHints, patch_size \in SizeHints, shifts \in ShiftArgs :
          /\ args' = HintArgs("Tensorize", input_size, num_heads, head_dim,
                              grid_size, patch_size, shifts)
          /\ tr' = Tensorize(input_size, num_heads, head_dim, grid_size, patch_size, shifts)
    /\ pc' = "built"
    /\ UNCHANGED <<x, out, inv_in, back, fin, fout>>

Forward ==
    /\ pc = "built"
    /\ tr.st = "ok"
    /\ \E t \in XTensors :
          /\ x' = t
          /\ out' = forward(tr, t)
    /\ pc' = "fwd"
    /\ UNCHANGED <<args, tr, inv_in, back, fin, fout>>

InverseForward ==
    /\ pc = "fwd"
    /\ out.st = "ok"
    /\ \E t \in InvInputs(out) :
          /\ inv_in' = t
          /\ back' = inverse_forward(tr, t)
    /\ pc' = "inv"
    /\ UNCHANGED <<args, tr, x, out, fin, fout>>

Next == NewReshape \/ NewMatricize \/ NewTensorize \/ Forward \/ InverseForward

Spec == Init /\ [][Next]_vars

(***************************************************************************)
(* Properties of Reshape, Matricize and Tensorize (specification Spec).    *)
(***************************************************************************)
IsLayout == pc # "new" /\ args.cls \in {"Reshape", "Matricize", "Tensorize"}

\* a tensor shape agrees with the declared input_size
Matches(shape, size) ==
    /\ Len(shape) = Len(size)
    /\ \A i \in 1..Len(size) : IsNone(size[i]) \/ size[i][1] = shape[i]

\* every axis of the shape can be split by the left side under the supplied extents
ConsistentShape(m, shape) ==
    \/ m.rearrange.st = "identity"
    \/ /\ Len(shape) = Len(m.left)
       /\ \A i \in 1..Len(m.left) :
             LET sup == KnownLengths(m.left[i], m.rearrange.axes_lengths)
             IN  IF Len(sup) = Len(m.left[i]) THEN shape[i] = SeqProd(sup)
                 ELSE shape[i] % SeqProd(sup) = 0

RoundTripCase ==
    /\ IsLayout
    /\ pc \in {"fwd", "inv"}
    /\ Matches(x.shape, tr.input_size)
    /\ ConsistentShape(tr, x.shape)

\* C1: for a constructed Reshape (plain, Matricize or Tensorize), with or without a
\* shift, and every tensor x of the declared input shape that the supplied extents
\* divide, forward(x) succeeds and inverse_forward(forward(x)) is x, element for element.
C1_RoundTrip ==
    RoundTripCase =>
       /\ out.st = "ok"
       /\ (pc = "inv" /\ inv_in = out) => back = x

\* a shifted, permuting transform whose round trip was taken
C1_Witness ==
    /\ RoundTripCase
    /\ pc = "inv"
    /\ inv_in = out
    /\ tr.has_shifts
    /\ out.data # x.data
    /\ out.shape # x.shape
    /\ back = x

\* the hints of a Matricize / Tensorize call resolved against a fully declared input
Declared(a) == \A i \in 1..Len(a.input_size) : ~IsNone(a.input_size[i])
SpatialDim(a) == Len(a.input_size) - 2
Channels(a) == a.input_size[2][1]
Extent(a, i) == a.input_size[i + 2][1]
Heads(a) == IF ~IsNone(a.num_heads) THEN a.num_heads[1]
            ELSE Channels(a) \div a.head_dim[1]
HeadDim(a) == IF ~IsNone(a.head_dim) THEN a.head_dim[1]
              ELSE Channels(a) \div a.num_heads[1]
Grid(a, i) == IF a.grid_size.k # "None" THEN a.grid_size.v[1]
              ELSE Extent(a, i) \div a.patch_size.v[1]
Patch(a, i) == IF a.patch_size.k # "None" THEN a.patch_size.v[1]
               ELSE Extent(a, i) \div a.grid_size.v[1]
Resolves(a) ==
    /\ Declared(a)
    /\ ~(IsNone(a.num_heads) /\ IsNone(a.head_dim))
    /\ ~(a.grid_size.k = "None" /\ a.patch_size.k = "None")
    /\ Heads(a) * HeadDim(a) = Channels(a)
    /\ \A i \in 1..SpatialDim(a) : Grid(a, i) * Patch(a, i) = Extent(a, i)

EndToEnd(cls) ==
    HintArgs(cls, <<Some(1), Some(4), Some(8), Some(8)>>, Some(2), Some(2),
             PInt(2), PInt(4), PNone)

\* C3: a Matricize whose hints resolve to h * d = C and g_i * p_i = X_i on input
\* (B, C, X_0, ..) has output_size (B*h, g_0*..*g_(S-1), d, p_0*..*p_(S-1)); the input
\* (1, 4, 8, 8) with heads 2, head dim 2, grid 2, patch 4 gives (2, 4, 2, 16).
C3_MatricizeShape ==
    (pc # "new" /\ args.cls = "Matricize" /\ Resolves(args)) =>
       /\ tr.st = "ok"
       /\ tr.output_size =
             <<Some(args.input_size[1][1] * Heads(args)),
               Some(SeqProd([i \in 1..SpatialDim(args) |-> Grid(args, i)])),
               Some(HeadDim(args)),
               Some(SeqProd([i \in 1..SpatialDim(args) |-> Patch(args, i)]))>>
       /\ args = EndToEnd("Matricize") =>
             tr.output_size = <<Some(2), Some(4), Some(2), Some(16)>>

C3_Witness ==
    /\ pc = "built"
    /\ args = EndToEnd("Matricize")
    /\ tr.st = "ok"
    /\ tr.output_size = <<Some(2), Some(4), Some(2), Some(16)>>

\* C4: a Tensorize whose hints resolve is constructed, the axis names of its left and
\* right side are the same set, and its output_size is
\* (B*h, g_0*..*g_(S-1), d, p_0, .., p_(S-1)), of rank 3 + S.
C4_TensorizeShape ==
    (pc # "new" /\ args.cls = "Tensorize" /\ Resolves(args)) =>
       /\ tr.st = "ok"
       /\ Range(Flatten(tr.left)) = Range(Flatten(tr.right))
       /\ tr.output_size =
             <<Some(args.input_size[1][1] * Heads(args)),
               Some(SeqProd([i \in 1..SpatialDim(args) |-> Grid(args, i)])),
               Some(HeadDim(args))>>
             \o [i \in 1..SpatialDim(args) |-> Some(Patch(args, i))]

NeitherHeads(a) == IsNone(a.num_heads) /\ IsNone(a.head_dim)
BothHeads(a) == ~IsNone(a.num_heads) /\ ~IsNone(a.head_dim)
NeitherSizes(a) == a.grid_size.k = "None" /\ a.patch_size.k = "None"
BothSizes(a) == a.grid_size.k # "None" /\ a.patch_size.k # "None"
IsHinted == pc # "new" /\ args.cls \in {"Matricize", "Tensorize"}

\* C5 as stated: Matricize / Tensorize are constructed only with exactly one of
\* {num_heads, head_dim} and exactly one of {grid_size, patch_size}; with neither or
\* both of a pair the constructor fails its validation.
C5_ExactlyOneOfEachPair ==
    IsHinted =>
       /\ tr.st = "ok" =>
             ~(NeitherHeads(args) \/ BothHeads(args) \/ NeitherSizes(args) \/ BothSizes(args))
       /\ (NeitherHeads(args) \/ BothHeads(args) \/ NeitherSizes(args) \/ BothSizes(args)) =>
             tr.st = "AssertionError"

\* C5 amended: the validation of Matricize / Tensorize fails, and no transform is
\* built, exactly when a pair has neither member; both members of a pair pass it.
C5_NeitherRejected ==
    IsHinted =>
       (tr.st = "AssertionError" <=> (NeitherHeads(args) \/ NeitherSizes(args)))

\* both members of both pairs supplied, and the Matricize is constructed
C5_Witness ==
    /\ IsHinted
    /\ args.cls = "Matricize"
    /\ BothHeads(args)
    /\ BothSizes(args)
    /\ tr.st = "ok"

(***************************************************************************)
(* The shifted-window compositions as a state machine (SpecSW).            *)
(***************************************************************************)
SWInputSizes == {<<Some(1), Some(2), Some(2)>>, <<None, Some(2), Some(4)>>,
                 <<Some(1), Some(2), Some(2), Some(2)>>}
SWHeadDims == {None, Some(1)}
SWSizeHints == {PNone, PInt(1), PInt(2)}
\* one variant's shifts: none, or MaxShift on every spatial axis
SWVariantShifts == {PNone, PInt(MaxShift)}
SWShiftArgs ==
    {PNone} \cup {PList(l) : l \in UNION {[1..n -> SWVariantShifts] : n \in 0..MaxVariants}}

NewSWMatricize ==
    /\ pc = "new"
    /\ \E input_size \in SWInputSizes, num_heads \in OptHints, head_dim \in SWHeadDims,
          grid_size \in SWSizeHints, patch_size \in SWSizeHints, shifts \in SWShiftArgs :
          /\ args' = HintArgs("SWMatricize", input_size, num_heads, head_dim,
                              grid_size, patch_size, shifts)
          /\ tr' = SWMatricize(input_size, num_heads, head_dim, grid_size, patch_size, shifts)
    /\ pc' = "built"
    /\ UNCHANGED <<x, out, inv_in, back, fin, fout>>

NewSWTensorize ==
    /\ pc = "new"
    /\ \E input_size \in SWInputSizes, num_heads \in OptHints, head_dim \in SWHeadDims,
          grid_size \in SWSizeHints, patch_size \in SWSizeHints, shifts \in SWShiftArgs :
          /\ args' = HintArgs("SWTensorize", input_size, num_heads, head_dim,
                              grid_size, patch_size, shifts)
          /\ tr' = SWTensorize(input_size, num_heads, head_dim, grid_size, patch_size, shifts)
    /\ pc' = "built"
    /\ UNCHANGED <<x, out, inv_in, back, fin, fout>>

NextSW == NewSWMatricize \/ NewSWTensorize \/ Forward \/ InverseForward

SpecSW == Init /\ [][NextSW]_vars

(***************************************************************************)
(* Properties of SWMatricize and SWTensorize (specification SpecSW).       *)
(***************************************************************************)
IsSW == pc # "new" /\ args.cls \in {"SWMatricize", "SWTensorize"} /\ tr.st = "ok"
NumVariants == Len(tr.shifted_windows)
\* the resolved head count, shared by the variants
ResolvedHeads == tr.shifted_windows[1].dim_lengths["h"]
\* rows lo+1 .. hi of the forward output
Rows(t, lo, hi) == Tensor(<<hi - lo>> \o Tail(t.shape),
                          SubSeq(t.data, lo * Stride(t.shape, 1) + 1, hi * Stride(t.shape, 1)))

Forwarded == IsSW /\ pc \in {"fwd", "inv"} /\ out.st = "ok"

\* C6 as stated: forward(x) is the variants' outputs concatenated along axis 0 in
\* variant order and has batch size B * V for an input of batch size B;
\* inverse_forward of it returns batch size B.
C6_BatchLaw ==
    Forwarded =>
       /\ out.shape[1] = x.shape[1] * NumVariants
       /\ (pc = "inv" /\ inv_in = out /\ back.st = "ok") => back.shape[1] = x.shape[1]

\* C6 amended: forward(x) is the variants' outputs concatenated along axis 0 in variant
\* order and has axis-0 size B * h * V, h the resolved head count (B * V only for h = 1);
\* inverse_forward of a tensor whose axis-0 size n is divisible by V returns, when it
\* returns, batch size n / (h * V), which is B for the output of forward.
C6_BatchLawHeads ==
    Forwarded =>
       LET per == x.shape[1] * ResolvedHeads
       IN  /\ out.shape[1] = per * NumVariants
           /\ \A j \in 1..NumVariants :
                 Rows(out, (j - 1) * per, j * per) = Reshape_forward(tr.shifted_windows[j], x)
           /\ (pc = "inv" /\ back.st = "ok" /\ inv_in.shape[1] % NumVariants = 0) =>
                 back.shape[1] * ResolvedHeads * NumVariants = inv_in.shape[1]
           /\ (pc = "inv" /\ inv_in = out /\ Matches(x.shape, tr.shifted_windows[1].input_size)) =>
                 (back.st = "ok" /\ back.shape[1] = x.shape[1])

\* several variants with different shifts, several heads, and the inverse taken
C6_Witness ==
    /\ Forwarded
    /\ pc = "inv"
    /\ inv_in = out
    /\ back.st = "ok"
    /\ NumVariants >= 2
    /\ ResolvedHeads >= 2
    /\ out.shape[1] = x.shape[1] * ResolvedHeads * NumVariants
    /\ \E i, j \in 1..NumVariants :
          Reshape_forward(tr.shifted_windows[i], x) # Reshape_forward(tr.shifted_windows[j], x)

\* C7: inverse_forward of a tensor whose axis-0 size is not divisible by the number of
\* variants fails and returns nothing.
C7_IndivisibleRejected ==
    (IsSW /\ pc = "inv" /\ inv_in.shape[1] % NumVariants # 0) => back.st # "ok"

\* C9: with parameters a Matricize accepts and no shift list, SWMatricize is constructed
\* with two variants, the first unshifted, the second shifting spatial axis i by
\* patch_i // 2 for the resolved patch_i, both with the same output_size.
C9_DefaultShifts ==
    (/\ pc # "new"
     /\ args.cls = "SWMatricize"
     /\ args.shifts.k = "None"
     /\ Matricize(args.input_size, args.num_heads, args.head_dim,
                  args.grid_size, args.patch_size, PNone).st = "ok") =>
       /\ tr.st = "ok"
       /\ Len(tr.shifted_windows) = 2
       /\ ~tr.shifted_windows[1].has_shifts
       /\ tr.shifted_windows[2].has_shifts
       /\ tr.shifted_windows[2].shifts =
             [i \in 1..SpatialDim(args) |-> tr.shifted_windows[2].dim_lengths[AxisP[i]] \div 2]
       /\ tr.shifted_windows[2].dims = [i \in 1..SpatialDim(args) |-> i + 1]
       /\ tr.shifted_windows[1].output_size = tr.shifted_windows[2].output_size

SWRoundTripCase ==
    /\ Forwarded
    /\ args.cls = "SWMatricize"
    /\ pc = "inv"
    /\ inv_in = out
    /\ Matches(x.shape, tr.shifted_windows[1].input_size)

\* C10 as stated: for an SWMatricize with V >= 1 variants and x of the configured
\* shape, inverse_forward(forward(x)) = x.
C10_RoundTrip == SWRoundTripCase => back = x

\* doubling no element of x overflows
Doubles(t) == \A k \in 1..Len(t.data) : 2 * t.data[k] <= FMax

\* C10 amended: for every V >= 1, chunk j of forward(x) is variant j's output and
\* variant j's inverse returns x from it; inverse_forward(forward(x)) = x exactly for
\* V <= 2 and x whose elements double without overflow (for V >= 3 the floating-point
\* sum of V copies of x divided by V equals x only up to rounding).
C10_RoundTripTwoVariants ==
    SWRoundTripCase =>
       LET per == out.shape[1] \div NumVariants
       IN  /\ \A j \in 1..NumVariants :
                 Reshape_inverse_forward(tr.shifted_windows[j],
                                         Rows(out, (j - 1) * per, j * per)) = x
           /\ (NumVariants <= 2 /\ Doubles(x)) => back = x

\* two variants with different shifts, a tensor that the shift changes, and its round trip
C10_Witness ==
    /\ SWRoundTripCase
    /\ NumVariants = 2
    /\ Doubles(x)
    /\ Reshape_forward(tr.shifted_windows[1], x) # Reshape_forward(tr.shifted_windows[2], x)
    /\ back = x

(***************************************************************************)
(* infer_dims called on its own (SpecInfer).                               *)
(***************************************************************************)
PartialMaps(names, vals) == UNION {[S -> vals] : S \in SUBSET names}

InferCall(pattern, size, dim_lengths) ==
    [cls |-> "infer_dims", pattern |-> pattern, size |-> size, dim_lengths |-> dim_lengths]

\* 'b (h d) (g0 p0) (g1 p1)' on (None, 8, 16, 16) with h=2, g0=4, g1=4
InferExample ==
    InferCall(left_equation(2), <<None, Some(8), Some(16), Some(16)>>,
              ("h" :> 2) @@ ("g0" :> 4) @@ ("g1" :> 4))

InferInputs ==
    {InferCall(left_equation(2), size, dl) :
        size \in {<<None, Some(8), Some(16), Some(16)>>, <<Some(2), Some(8), Some(16), Some(16)>>,
                  <<Some(1), Some(6), Some(9), Some(4)>>, <<Some(3), Some(8)>>},
        dl \in PartialMaps({"h", "d", "g0", "p0", "g1", "p1"}, {2, 4})}
    \cup
    {InferCall(<<<<"a", "b", "c">>, <<"e">>>>, size, dl) :
        size \in {<<Some(24), Some(5)>>, <<None, Some(5)>>, <<Some(7), None>>},
        dl \in PartialMaps({"a", "b", "c", "e"}, {2, 3})}

InitInfer ==
    /\ pc = "infer"
    /\ fin \in InferInputs
    /\ fout = EmptyDict
    /\ args = NoArgs
    /\ tr = NoModule
    /\ x = NoTensor
    /\ out = NoTensor
    /\ inv_in = NoTensor
    /\ back = NoTensor

InferDims ==
    /\ pc = "infer"
    /\ fout' = infer_dims(fin.pattern, fin.size, fin.dim_lengths)
    /\ pc' = "infer_done"
    /\ UNCHANGED <<args, tr, x, out, inv_in, back, fin>>

SpecInfer == InitInfer /\ [][InferDims]_vars

RECURSIVE SetProd(_, _)
SetProd(S, f) == IF S = {} THEN 1
                 ELSE LET d == CHOOSE e \in S : TRUE IN f[d] * SetProd(S \ {d}, f)

\* C2: for every left-side group paired with a declared size s (not None) in which
\* exactly one axis has no supplied extent, that axis gets s floor-divided by the
\* product of the supplied extents of the group; every supplied extent of a paired
\* group is returned unchanged; an axis without extent in a group whose size is None
\* stays absent.  (None, 8, 16, 16) with h=2, g0=4, g1=4 gives d=4, p0=4, p1=4, no b.
C2_InferDims ==
    pc = "infer_done" =>
       /\ \A i \in 1..Min(Len(fin.pattern), Len(fin.size)) :
             LET supplied == Range(fin.pattern[i]) \cap DOMAIN fin.dim_lengths
                 missing == Range(fin.pattern[i]) \ DOMAIN fin.dim_lengths
             IN  /\ \A d \in supplied : d \in DOMAIN fout /\ fout[d] = fin.dim_lengths[d]
                 /\ (~IsNone(fin.size[i]) /\ Cardinality(missing) = 1) =>
                       \A d \in missing :
                          /\ d \in DOMAIN fout
                          /\ fout[d] = fin.size[i][1] \div SetProd(supplied, fin.dim_lengths)
                 /\ IsNone(fin.size[i]) => \A d \in missing : d \notin DOMAIN fout
       /\ fin = InferExample =>
             fout = ("h" :> 2) @@ ("d" :> 4) @@ ("g0" :> 4) @@ ("p0" :> 4)
                    @@ ("g1" :> 4) @@ ("p1" :> 4)

C2_Witness ==
    /\ pc = "infer_done"
    /\ fin = InferExample
    /\ "b" \notin DOMAIN fout
    /\ fout["d"] = 4
    /\ fout["p0"] = 4
    /\ fout["p1"] = 4

(***************************************************************************)
(* cp and khatri_rao called on the same factor matrices (SpecCP).          *)
(***************************************************************************)
\* entry k of a factor matrix generated from a seed
FactorEntry(seed, k) == (k * k + seed * k) % 7

FactorMatrix(batch, extent, rank, seed) ==
    Tensor(<<batch, extent, rank>>, [k \in 1..(batch * extent * rank) |-> FactorEntry(seed, k)])

FactorSets ==
    UNION {{[m \in 1..M |-> FactorMatrix(batch, extents[m], rank, seeds[m])] :
              batch \in {1, 2}, rank \in {1, 2},
              extents \in [1..M -> {1, 2, 3}], seeds \in [1..M -> {1, 2}]} :
           M \in 1..MaxFactors}

NotCalled == [cp |-> NoTensor, khatri_rao |-> NoTensor]

InitCP ==
    /\ pc = "contract"
    /\ fin \in {[cls |-> "contract", factor_matrices |-> fm] : fm \in FactorSets}
    /\ fout = NotCalled
    /\ args = NoArgs
    /\ tr = NoModule
    /\ x = NoTensor
    /\ out = NoTensor
    /\ inv_in = NoTensor
    /\ back = NoTensor

CallCp ==
    /\ pc = "contract"
    /\ fout.cp = NoTensor
    /\ fout' = [fout EXCEPT !.cp = cp(fin.factor_matrices)]
    /\ UNCHANGED <<pc, args, tr, x, out, inv_in, back, fin>>

CallKhatriRao ==
    /\ pc = "contract"
    /\ fout.khatri_rao = NoTensor
    /\ fout' = [fout EXCEPT !.khatri_rao = khatri_rao(fin.factor_matrices)]
    /\ UNCHANGED <<pc, args, tr, x, out, inv_in, back, fin>>

NextCP == CallCp \/ CallKhatriRao

SpecCP == InitCP /\ [][NextCP]_vars

BothCalled == pc = "contract" /\ fout.cp # NoTensor /\ fout.khatri_rao # NoTensor
FactorExtents == [m \in 1..Len(fin.factor_matrices) |-> fin.factor_matrices[m].shape[2]]
\* the positions (i0, .., i(M-1)) of a tensor of these extents, counted from 0
Positions(extents) ==
    {i \in [1..Len(extents) -> 0..2] : \A m \in 1..Len(extents) : i[m] < extents[m]}
\* the row-major index of position i
RowMajor(extents, i) ==
    SeqSum([m \in 1..Len(extents) |-> i[m] * SeqProd(SubSeq(extents, m + 1, Len(extents)))])

\* C8: for M >= 1 factor matrices (batch, extent_m, rank), khatri_rao has shape
\* (batch, extent_0 * .. * extent_(M-1), rank), cp has shape (batch, extent_0, ..), and
\* cp[b, i0, ..] = sum over r of khatri_rao[b, rowmajor(i0, ..), r]
\*               = sum over r of the product over m of factors[m][b, i_m, r].
C8_CpKhatriRao ==
    BothCalled =>
       LET fm == fin.factor_matrices
           batch == fm[1].shape[1]
           rank == fm[1].shape[3]
           n == SeqProd(FactorExtents)
       IN  /\ fout.khatri_rao.shape = <<batch, n, rank>>
           /\ fout.cp.shape = <<batch>> \o FactorExtents
           /\ \A b \in 0..(batch - 1) : \A i \in Positions(FactorExtents) :
                 LET f == RowMajor(FactorExtents, i)
                     c == fout.cp.data[b * n + f + 1]
                 IN  /\ c = SeqSum([r \in 1..rank |->
                               fout.khatri_rao.data[(b * n + f) * rank + r]])
                     /\ c = SeqSum([r \in 1..rank |->
                               SeqProd([m \in 1..Len(fm) |->
                                  fm[m].data[(b * fm[m].shape[2] + i[m]) * rank + r]])])

\* two factor matrices of different extents, several ranks and batches
C8_Witness ==
    /\ BothCalled
    /\ Len(fin.factor_matrices) = 2
    /\ fin.factor_matrices[1].shape = <<2, 2, 2>>
    /\ fin.factor_matrices[2].shape = <<2, 3, 2>>
    /\ fout.khatri_rao.shape = <<2, 6, 2>>
    /\ fout.cp.shape = <<2, 2, 3>>

=============================================================================
